---- MODULE Spec2Model ----
(***************************************************************************)
(* coreaudio-rs, src/audio_unit/mod.rs: the AudioUnit wrapper.             *)
(*                                                                         *)
(* One unit is followed from construction to destruction.  The control     *)
(* thread runs new_with_flags, start, stop, set_render_callback and drop;  *)
(* the engine's render thread runs input_proc.  The engine (Apple's Audio  *)
(* Unit API) is the environment: every primitive returns a status drawn    *)
(* from Statuses, and its scheduling guarantees are the ones section 5 of  *)
(* the specification relies on.                                            *)
(*                                                                         *)
(* The two threads interleave, so set_render_callback and drop are split   *)
(* at their engine calls: each action is the code from one engine call to  *)
(* the next.  An input_proc activation lasts from render_begin to          *)
(* render_end.  The engine's guarantees are read as covering the whole     *)
(* activation: AudioUnitSetProperty runs only between activations, and     *)
(* AudioUnitUninitialize returns only when none is in flight.              *)
(*                                                                         *)
(* Callbacks are heap allocations numbered 1..MaxCallbacks; the pointer    *)
(* to allocation c is the number c, and Null is the null pointer.          *)
(* released[c] counts how often allocation c was turned back into a Box    *)
(* and dropped.                                                            *)
(***************************************************************************)
EXTENDS Integers, Sequences, FiniteSets, TLC

\* Bounds of the model.
MaxCallbacks == 3
MaxCalls == 2

MaxValue == 2
MaxPropCalls == 2

MaxFrames == 2
MaxChannels == 2

\* ptr::null_mut()
Null == 0

\* au::kAudioUnitProperty_SampleRate and au::kAudioUnitProperty_StreamFormat
kAudioUnitProperty_SampleRate == 2
kAudioUnitProperty_StreamFormat == 8

\* AudioUnitError::NoConnection as au::OSStatus (kAudioUnitErr_NoConnection)
NoConnection == -10876

\* The statuses an engine primitive may return: success and one failure.
Statuses == {0, -50}

CallbackIds == 1..MaxCallbacks

VARIABLES
    pc,              \* position of the control thread
    ctor,            \* arguments, engine calls and result of new_with_flags
    au,              \* the engine instance behind AudioUnit.instance
    maybe_callback,  \* AudioUnit.maybe_callback (Null for None)
    callback_ptr,    \* set_render_callback's local callback_ptr
    nextId,          \* the next heap allocation
    released,        \* per allocation, how often it was dropped
    rpc,             \* position of the render thread
    in_ref_con,      \* input_proc's in_ref_con while an activation is in flight
    tramp,           \* outcome of the last input_proc activation
    calls,           \* calls made through the unit and calls the engine received
    last,            \* the last set_render_callback call: entry snapshot and result
    dropLog,         \* what Drop::drop has done so far, in order
    dropSnap,        \* maybe_callback and released at the entry of Drop::drop
    instance,        \* AudioUnit.instance, the engine handle (Null: no unit)
    props,           \* the engine's property table
    pcall,           \* the last property call made through the unit
    slice            \* the last input_proc activation: what the engine passed
                     \* and what the callback received

\* The state of the property calls and of the buffer slicing, which the
\* lifecycle and callback operations leave alone.
pureVars == <<props, pcall, slice>>

\* The state of the lifecycle and of the callback ownership.
unitVars == <<pc, ctor, au, maybe_callback, callback_ptr, nextId, released,
              rpc, in_ref_con, tramp, calls, last, dropLog, dropSnap, instance>>

vars == <<pc, ctor, au, maybe_callback, callback_ptr, nextId, released,
          rpc, in_ref_con, tramp, calls, last, dropLog, dropSnap, instance,
          props, pcall, slice>>

----------------------------------------------------------------------------
\* Error::from_os_status: 0 is success, anything else an error carrying the code.
from_os_status(status) ==
    IF status = 0 THEN [kind |-> "Ok", code |-> 0]
    ELSE [kind |-> "OSStatus", code |-> status]

\* A new_with_flags that forgets the try_os_status! around AudioUnitInitialize.
new_with_flags_unchecked_init(subOk, found, instSt, initSt) ==
    IF ~subOk THEN
        [calls |-> <<>>, result |-> [kind |-> "NoKnownSubtype", code |-> 0]]
    ELSE IF ~found THEN
        [calls |-> <<"AudioComponentFindNext">>,
         result |-> [kind |-> "NoMatchingDefaultAudioUnitFound", code |-> 0]]
    ELSE IF from_os_status(instSt).kind # "Ok" THEN
        [calls |-> <<"AudioComponentFindNext", "AudioComponentInstanceNew">>,
         result |-> from_os_status(instSt)]
    ELSE
        [calls |-> <<"AudioComponentFindNext", "AudioComponentInstanceNew",
                     "AudioUnitInitialize">>,
         result |-> [kind |-> "Ok", code |-> 0]]

\* A new_with_flags that does not test the component for null and goes on
\* to AudioComponentInstanceNew.
new_with_flags_unchecked_component(subOk, found, instSt, initSt) ==
    IF ~subOk THEN
        [calls |-> <<>>, result |-> [kind |-> "NoKnownSubtype", code |-> 0]]
    ELSE IF from_os_status(instSt).kind # "Ok" THEN
        [calls |-> <<"AudioComponentFindNext", "AudioComponentInstanceNew">>,
         result |-> from_os_status(instSt)]
    ELSE IF from_os_status(initSt).kind # "Ok" THEN
        [calls |-> <<"AudioComponentFindNext", "AudioComponentInstanceNew",
                     "AudioUnitInitialize">>,
         result |-> from_os_status(initSt)]
    ELSE
        [calls |-> <<"AudioComponentFindNext", "AudioComponentInstanceNew",
                     "AudioUnitInitialize">>,
         result |-> [kind |-> "Ok", code |-> 0]]

\* AudioUnit::new_with_flags.  subOk: to_subtype_u32 returned Some; found:
\* AudioComponentFindNext returned a non-null component; instSt, initSt: the
\* statuses of AudioComponentInstanceNew and AudioUnitInitialize.  The value
\* is the sequence of engine calls made and the Result returned.
new_with_flags(subOk, found, instSt, initSt) ==
    IF ~subOk THEN
        [calls |-> <<>>, result |-> [kind |-> "NoKnownSubtype", code |-> 0]]
    ELSE IF ~found THEN
        [calls |-> <<"AudioComponentFindNext">>,
         result |-> [kind |-> "NoMatchingDefaultAudioUnitFound", code |-> 0]]
    ELSE IF from_os_status(instSt).kind # "Ok" THEN
        [calls |-> <<"AudioComponentFindNext", "AudioComponentInstanceNew">>,
         result |-> from_os_status(instSt)]
    ELSE IF from_os_status(initSt).kind # "Ok" THEN
        [calls |-> <<"AudioComponentFindNext", "AudioComponentInstanceNew",
                     "AudioUnitInitialize">>,
         result |-> from_os_status(initSt)]
    ELSE
        [calls |-> <<"AudioComponentFindNext", "AudioComponentInstanceNew",
                     "AudioUnitInitialize">>,
         result |-> [kind |-> "Ok", code |-> 0]]

\* free_render_callback: maybe_callback.take(), and the allocation it held is
\* turned back into a Box and dropped.
free_render_callback(mc, rel) ==
    IF mc # Null THEN [rel EXCEPT ![mc] = @ + 1] ELSE rel

\* The process still runs: no panic on the control thread, no panic or crash
\* on the render thread.
Alive == pc # "panicked" /\ rpc # "dead"

----------------------------------------------------------------------------
\* Property calls.  A property value is a number in Values; the engine's
\* table holds one value per key <<id, scope, element>>, 0 where nothing is
\* set.  A value handed to set_property lives at an address and has a type.

PropertyIds == {kAudioUnitProperty_SampleRate, kAudioUnitProperty_StreamFormat}

Scopes == {"Output", "Input"}

Elements == {"Output", "Input"}

Values == 1..MaxValue

Types == {"f64", "AudioStreamBasicDescription"}

\* Where a value passed by reference may live.
Addrs == {64}

\* `scope as libc::c_uint`, `elem as libc::c_uint`: Output = 0, Input = 1.
as_c_uint(e) == IF e = "Output" THEN 0 ELSE 1

\* ::std::mem::size_of::<T>()
size_of(ty) == IF ty = "f64" THEN 8 ELSE 40

Keys == PropertyIds \X {0, 1} \X {0, 1}

\* Option<&T>: None, or Some reference to a value of type ty at addr.
NoData == [some |-> FALSE, addr |-> Null, ty |-> "none", val |-> 0]

SomeData(addr, ty, val) == [some |-> TRUE, addr |-> addr, ty |-> ty, val |-> val]

\* A set_property that passes the size of a pointer instead of the size of T.
set_property_pointer_size(id, scope, elem, maybe_data) ==
    [fn |-> "AudioUnitSetProperty", id |-> id,
     scope |-> as_c_uint(scope), elem |-> as_c_uint(elem),
     data_ptr |-> IF maybe_data.some THEN maybe_data.addr ELSE Null,
     size |-> IF maybe_data.some THEN 8 ELSE 0]

\* AudioUnit::set_property, lines 177-185: the arguments of the one
\* AudioUnitSetProperty call it makes.
set_property(id, scope, elem, maybe_data) ==
    [fn |-> "AudioUnitSetProperty", id |-> id,
     scope |-> as_c_uint(scope), elem |-> as_c_uint(elem),
     data_ptr |-> IF maybe_data.some THEN maybe_data.addr ELSE Null,
     size |-> IF maybe_data.some THEN size_of(maybe_data.ty) ELSE 0]

\* A get_property that mixes up scope and element.
get_property_swapped(id, scope, elem, ty) ==
    [fn |-> "AudioUnitGetProperty", id |-> id,
     scope |-> as_c_uint(elem), elem |-> as_c_uint(scope),
     data_ptr |-> Null, size |-> size_of(ty)]

\* AudioUnit::get_property, lines 200-208: the arguments of the one
\* AudioUnitGetProperty call it makes (data_ptr is its own local).
get_property(id, scope, elem, ty) ==
    [fn |-> "AudioUnitGetProperty", id |-> id,
     scope |-> as_c_uint(scope), elem |-> as_c_uint(elem),
     data_ptr |-> Null, size |-> size_of(ty)]

\* The key an engine call addresses.
KeyOf(call) == <<call.id, call.scope, call.elem>>

\* The engine's AudioUnitSetProperty: a call it accepts stores the value
\* found at data_ptr under the call's key, untransformed, or clears the key
\* when data_ptr is null; a call it rejects changes nothing.
engine_set(table, call, maybe_data, st) ==
    IF st # 0 THEN table
    ELSE [table EXCEPT ![KeyOf(call)] =
            IF call.data_ptr = Null THEN 0
            ELSE IF call.data_ptr = maybe_data.addr THEN maybe_data.val ELSE 0]

\* The engine's AudioUnitGetProperty: what it writes to the caller's buffer.
engine_get(table, call) == table[KeyOf(call)]

\* StreamFormat::to_asbd and StreamFormat::from_asbd: a format and its
\* AudioStreamBasicDescription, which are not the same value.
to_asbd(f) == 2 * f + 1

from_asbd(a) ==
    IF a % 2 = 1 THEN [kind |-> "Ok", val |-> (a - 1) \div 2]
    ELSE [kind |-> "Err", val |-> 0]

NoKey == <<>>

InitPcall ==
    [n |-> 0, op |-> "none", id |-> 0, scope |-> "Output", elem |-> "Output",
     data |-> NoData, engine |-> <<>>, st |-> 0, res |-> "none", out |-> 0,
     expect |-> [k \in Keys |-> 0],
     rateKey |-> NoKey, fmtKey |-> NoKey, rateSet |-> 0, fmtSet |-> 0]

----------------------------------------------------------------------------
\* The render trampoline's view construction (input_proc, lines 326-351).
\* A channel view is the pair slice::from_raw_parts_mut makes: a start
\* address and a length in f32 samples.

\* Addresses the engine puts in AudioBuffer.mData.
BufAddrs == {256, 512}

\* mem::size_of::<libc::c_float>()
SizeOfFloat == 4

\* au::AudioBuffer: the fields of one channel buffer.
AudioBuffers ==
    [mData : BufAddrs,
     mDataByteSize : {SizeOfFloat * k : k \in 0..MaxFrames}]

\* au::AudioBufferList: mNumberBuffers buffers, in the engine's order.
AudioBufferLists ==
    { [mNumberBuffers |-> Len(b), mBuffers |-> b] :
        b \in UNION { [1..c -> AudioBuffers] : c \in 0..MaxChannels } }

\* A variant that takes each view's length from the buffer's byte size.
input_proc_channels_by_byte_size(in_number_frames, io_data) ==
    [i \in 1..io_data.mNumberBuffers |->
        [ptr |-> io_data.mBuffers[i].mData,
         len |-> io_data.mBuffers[i].mDataByteSize \div SizeOfFloat]]

\* Lines 327-351: num_channels = mNumberBuffers, and channel i (in index
\* order) is from_raw_parts_mut(mBuffers[i].mData, in_number_frames).
input_proc_channels(in_number_frames, io_data) ==
    [i \in 1..io_data.mNumberBuffers |->
        [ptr |-> io_data.mBuffers[i].mData,
         len |-> in_number_frames]]

\* Line 353: the calls input_proc makes to the callback behind in_ref_con.
input_proc_invocations(in_number_frames, io_data) ==
    << [channels |-> input_proc_channels(in_number_frames, io_data),
        frames |-> in_number_frames] >>

NoSlice ==
    [ran |-> FALSE, in_number_frames |-> 0,
     io_data |-> [mNumberBuffers |-> 0, mBuffers |-> <<>>],
     invoked |-> <<>>]

----------------------------------------------------------------------------
Init ==
    /\ pc = "new"
    /\ ctor = [subOk |-> FALSE, found |-> FALSE, instSt |-> 0, initSt |-> 0,
               calls |-> <<>>, result |-> [kind |-> "none", code |-> 0]]
    /\ au = [instOk |-> FALSE, initOk |-> FALSE, initialized |-> FALSE,
             running |-> FALSE, inputProc |-> FALSE, inputProcRefCon |-> Null]
    /\ maybe_callback = Null
    /\ callback_ptr = Null
    /\ nextId = 1
    /\ released = [c \in CallbackIds |-> 0]
    /\ rpc = "idle"
    /\ in_ref_con = Null
    /\ tramp = [cb |-> "none", returned |-> FALSE, status |-> 0,
                emitted |-> FALSE, panicked |-> FALSE, ub |-> FALSE]
    /\ calls = [start |-> 0, stop |-> 0, used |-> {},
                engStart |-> 0, engStop |-> 0,
                lastOp |-> "none", lastSt |-> 0, lastRes |-> "none"]
    /\ last = [res |-> "none", new |-> Null, old |-> Null, oldRel |-> 0,
               regBefore |-> Null, procBefore |-> FALSE]
    /\ dropLog = <<>>
    /\ dropSnap = [cb |-> Null, rel |-> released]
    /\ instance = Null
    /\ props = [k \in Keys |-> 0]
    /\ pcall = InitPcall
    /\ slice = NoSlice

\* AudioUnit::new_with_flags, with the engine's answers as inputs.
Construct ==
    /\ pc = "new"
    /\ \E subOk \in BOOLEAN, found \in BOOLEAN, instSt \in Statuses, initSt \in Statuses :
         LET r == new_with_flags(subOk, found, instSt, initSt) IN
         /\ ctor' = [subOk |-> subOk, found |-> found, instSt |-> instSt,
                     initSt |-> initSt, calls |-> r.calls, result |-> r.result]
         /\ au' = [au EXCEPT
                     !.instOk = Len(r.calls) >= 2 /\ instSt = 0,
                     !.initOk = Len(r.calls) >= 3 /\ initSt = 0,
                     !.initialized = Len(r.calls) >= 3 /\ initSt = 0]
         /\ pc' = IF r.result.kind = "Ok" THEN "idle" ELSE "failed"
         /\ instance' = IF r.result.kind = "Ok" THEN 1 ELSE Null
    /\ UNCHANGED <<pureVars, maybe_callback, callback_ptr, nextId, released, rpc,
                   in_ref_con, tramp, calls, last, dropLog, dropSnap>>

\* A start that remembers that the unit runs and does not call the engine
\* again.
start_skips_when_running ==
    /\ pc = "idle" /\ Alive
    /\ calls.start < MaxCalls
    /\ \E st \in Statuses :
         IF au.running
         THEN /\ UNCHANGED au
              /\ calls' = [calls EXCEPT !.start = @ + 1, !.lastOp = "start",
                                        !.lastSt = 0, !.lastRes = "Ok"]
         ELSE /\ au' = [au EXCEPT !.running = IF st = 0 THEN TRUE ELSE @]
              /\ calls' = [calls EXCEPT !.start = @ + 1,
                                        !.used = @ \cup {"AudioOutputUnitStart"},
                                        !.engStart = @ + 1,
                                        !.lastOp = "start", !.lastSt = st,
                                        !.lastRes = from_os_status(st).kind]
    /\ UNCHANGED <<pureVars, instance, pc, ctor, maybe_callback, callback_ptr,
                   nextId, released, rpc, in_ref_con, tramp, last, dropLog, dropSnap>>

\* AudioUnit::start: one AudioOutputUnitStart call, its status through
\* try_os_status!.  No field of the unit is read or written.
start ==
    /\ pc = "idle" /\ Alive
    /\ calls.start < MaxCalls
    /\ \E st \in Statuses :
         /\ au' = [au EXCEPT !.running = IF st = 0 THEN TRUE ELSE @]
         /\ calls' = [calls EXCEPT !.start = @ + 1,
                                   !.used = @ \cup {"AudioOutputUnitStart"},
                                   !.engStart = @ + 1,
                                   !.lastOp = "start", !.lastSt = st,
                                   !.lastRes = from_os_status(st).kind]
    /\ UNCHANGED <<pureVars, instance, pc, ctor, maybe_callback, callback_ptr, nextId, released,
                   rpc, in_ref_con, tramp, last, dropLog, dropSnap>>

\* AudioUnit::stop: one AudioOutputUnitStop call.
stop ==
    /\ pc = "idle" /\ Alive
    /\ calls.stop < MaxCalls
    /\ \E st \in Statuses :
         /\ au' = [au EXCEPT !.running = IF st = 0 THEN FALSE ELSE @]
         /\ calls' = [calls EXCEPT !.stop = @ + 1,
                                   !.used = @ \cup {"AudioOutputUnitStop"},
                                   !.engStop = @ + 1,
                                   !.lastOp = "stop", !.lastSt = st,
                                   !.lastRes = from_os_status(st).kind]
    /\ UNCHANGED <<pureVars, instance, pc, ctor, maybe_callback, callback_ptr, nextId, released,
                   rpc, in_ref_con, tramp, last, dropLog, dropSnap>>

----------------------------------------------------------------------------
\* A set_render_callback that releases the previous callback on entry,
\* before the new one is registered.
set_render_callback_begin_frees_first ==
    /\ pc = "idle" /\ Alive
    /\ \E some \in BOOLEAN :
         /\ some => nextId <= MaxCallbacks
         /\ callback_ptr' = IF some THEN nextId ELSE Null
         /\ nextId' = IF some THEN nextId + 1 ELSE nextId
    /\ last' = [res |-> "pending", new |-> callback_ptr', old |-> maybe_callback,
                oldRel |-> IF maybe_callback # Null THEN released[maybe_callback] ELSE 0,
                regBefore |-> au.inputProcRefCon, procBefore |-> au.inputProc]
    /\ released' = free_render_callback(maybe_callback, released)
    /\ maybe_callback' = Null
    /\ pc' = "src_set_property"
    /\ UNCHANGED <<pureVars, instance, ctor, au, rpc, in_ref_con, tramp, calls, dropLog, dropSnap>>

\* set_render_callback, lines 223-230: Some(x) is boxed and turned into a raw
\* pointer, None becomes the null pointer.
set_render_callback_begin ==
    /\ pc = "idle" /\ Alive
    /\ \E some \in BOOLEAN :
         /\ some => nextId <= MaxCallbacks
         /\ callback_ptr' = IF some THEN nextId ELSE Null
         /\ nextId' = IF some THEN nextId + 1 ELSE nextId
    /\ last' = [res |-> "pending", new |-> callback_ptr', old |-> maybe_callback,
                oldRel |-> IF maybe_callback # Null THEN released[maybe_callback] ELSE 0,
                regBefore |-> au.inputProcRefCon, procBefore |-> au.inputProc]
    /\ pc' = "src_set_property"
    /\ UNCHANGED <<pureVars, instance, ctor, au, maybe_callback, released, rpc, in_ref_con, tramp,
                   calls, dropLog, dropSnap>>

\* A set_render_callback that releases the previous callback when the
\* registration fails.
set_render_callback_set_property_frees_on_error ==
    /\ pc = "src_set_property" /\ Alive
    /\ rpc = "idle"
    /\ calls' = [calls EXCEPT !.used = @ \cup {"AudioUnitSetProperty"}]
    /\ \E st \in Statuses :
         IF from_os_status(st).kind = "Ok"
         THEN /\ au' = [au EXCEPT !.inputProc = TRUE,
                                  !.inputProcRefCon = callback_ptr]
              /\ pc' = "src_free"
              /\ UNCHANGED <<last, released, maybe_callback>>
         ELSE /\ pc' = "idle"
              /\ last' = [last EXCEPT !.res = "Err"]
              /\ released' = free_render_callback(maybe_callback, released)
              /\ maybe_callback' = Null
              /\ UNCHANGED au
    /\ UNCHANGED <<pureVars, instance, ctor, callback_ptr, nextId, rpc, in_ref_con,
                   tramp, dropLog, dropSnap>>

\* A set_render_callback that releases the previous callback before the
\* engine has answered the registration.
set_render_callback_set_property_frees_before_call ==
    /\ pc = "src_set_property" /\ Alive
    /\ rpc = "idle"
    /\ calls' = [calls EXCEPT !.used = @ \cup {"AudioUnitSetProperty"}]
    /\ released' = free_render_callback(maybe_callback, released)
    /\ maybe_callback' = Null
    /\ \E st \in Statuses :
         IF from_os_status(st).kind = "Ok"
         THEN /\ au' = [au EXCEPT !.inputProc = TRUE,
                                  !.inputProcRefCon = callback_ptr]
              /\ pc' = "src_free"
              /\ UNCHANGED last
         ELSE /\ pc' = "idle"
              /\ last' = [last EXCEPT !.res = "Err"]
              /\ UNCHANGED au
    /\ UNCHANGED <<pureVars, instance, ctor, callback_ptr, nextId, rpc, in_ref_con,
                   tramp, dropLog, dropSnap>>

\* set_render_callback, lines 232-235: the AURenderCallbackStruct
\* {input_proc, callback_ptr} goes to AudioUnitSetProperty; try! returns the
\* error at once when the status is not 0.  The engine runs the call only
\* while no input_proc activation is in flight, and a call it rejects leaves
\* its registration as it was.
set_render_callback_set_property ==
    /\ pc = "src_set_property" /\ Alive
    /\ rpc = "idle"
    /\ calls' = [calls EXCEPT !.used = @ \cup {"AudioUnitSetProperty"}]
    /\ \E st \in Statuses :
         IF from_os_status(st).kind = "Ok"
         THEN /\ au' = [au EXCEPT !.inputProc = TRUE,
                                  !.inputProcRefCon = callback_ptr]
              /\ pc' = "src_free"
              /\ UNCHANGED last
         ELSE /\ pc' = "idle"
              /\ last' = [last EXCEPT !.res = "Err"]
              /\ UNCHANGED au
    /\ UNCHANGED <<pureVars, instance, ctor, maybe_callback, callback_ptr, nextId, released, rpc,
                   in_ref_con, tramp, dropLog, dropSnap>>

\* A set_render_callback that releases the previous callback and forgets to
\* store the new pointer.
set_render_callback_finish_forgets_store ==
    /\ pc = "src_free" /\ Alive
    /\ released' = free_render_callback(maybe_callback, released)
    /\ maybe_callback' = Null
    /\ last' = [last EXCEPT !.res = "Ok"]
    /\ pc' = "idle"
    /\ UNCHANGED <<pureVars, instance, ctor, au, callback_ptr, nextId, rpc, in_ref_con, tramp,
                   calls, dropLog, dropSnap>>

\* set_render_callback, lines 237-239: free_render_callback, then the new
\* pointer is stored (None when it is null).
set_render_callback_finish ==
    /\ pc = "src_free" /\ Alive
    /\ released' = free_render_callback(maybe_callback, released)
    /\ maybe_callback' = callback_ptr
    /\ last' = [last EXCEPT !.res = "Ok"]
    /\ pc' = "idle"
    /\ UNCHANGED <<pureVars, instance, ctor, au, callback_ptr, nextId, rpc, in_ref_con, tramp,
                   calls, dropLog, dropSnap>>

----------------------------------------------------------------------------
\* A drop that uninitializes before it stops.
drop_stop_uninitializes_first ==
    /\ pc = "idle" /\ Alive
    /\ rpc = "idle"
    /\ dropSnap' = [cb |-> maybe_callback, rel |-> released]
    /\ dropLog' = <<"AudioUnitUninitialize">>
    /\ calls' = [calls EXCEPT !.used = @ \cup {"AudioUnitUninitialize"}]
    /\ \E st \in Statuses :
         IF from_os_status(st).kind = "Ok"
         THEN /\ au' = [au EXCEPT !.initialized = FALSE]
              /\ pc' = "drop_uninitialize"
         ELSE /\ pc' = "panicked"
              /\ UNCHANGED au
    /\ UNCHANGED <<pureVars, instance, ctor, maybe_callback, callback_ptr, nextId, released, rpc,
                   in_ref_con, tramp, last>>

\* Drop::drop, lines 307-309: self.stop(), and a panic when it fails.
drop_stop ==
    /\ pc = "idle" /\ Alive
    /\ dropSnap' = [cb |-> maybe_callback, rel |-> released]
    /\ dropLog' = <<"AudioOutputUnitStop">>
    /\ calls' = [calls EXCEPT !.used = @ \cup {"AudioOutputUnitStop"},
                              !.engStop = @ + 1]
    /\ \E st \in Statuses :
         IF from_os_status(st).kind = "Ok"
         THEN /\ au' = [au EXCEPT !.running = FALSE]
              /\ pc' = "drop_uninitialize"
         ELSE /\ pc' = "panicked"
              /\ UNCHANGED au
    /\ UNCHANGED <<pureVars, instance, ctor, maybe_callback, callback_ptr, nextId, released, rpc,
                   in_ref_con, tramp, last>>

\* A drop that releases the callback before it uninitializes.
drop_uninitialize_frees_first ==
    /\ pc = "drop_uninitialize" /\ Alive
    /\ released' = free_render_callback(maybe_callback, released)
    /\ maybe_callback' = Null
    /\ dropLog' = IF maybe_callback # Null
                  THEN dropLog \o <<"free", "AudioUnitUninitialize">>
                  ELSE Append(dropLog, "AudioUnitUninitialize")
    /\ calls' = [calls EXCEPT !.used = @ \cup {"AudioUnitUninitialize"}]
    /\ \E st \in Statuses :
         IF from_os_status(st).kind = "Ok"
         THEN /\ au' = [au EXCEPT !.initialized = FALSE]
              /\ pc' = "drop_free"
         ELSE /\ pc' = "panicked"
              /\ UNCHANGED au
    /\ UNCHANGED <<pureVars, instance, ctor, callback_ptr, nextId, rpc, in_ref_con, tramp, last,
                   dropSnap>>

\* Drop::drop, lines 310-312: AudioUnitUninitialize, and a panic when it
\* fails.  The engine returns from it only when no input_proc activation is
\* in flight: none runs once the unit is stopped and uninitialized.
drop_uninitialize ==
    /\ pc = "drop_uninitialize" /\ Alive
    /\ rpc = "idle"
    /\ dropLog' = Append(dropLog, "AudioUnitUninitialize")
    /\ calls' = [calls EXCEPT !.used = @ \cup {"AudioUnitUninitialize"}]
    /\ \E st \in Statuses :
         IF from_os_status(st).kind = "Ok"
         THEN /\ au' = [au EXCEPT !.initialized = FALSE]
              /\ pc' = "drop_free"
         ELSE /\ pc' = "panicked"
              /\ UNCHANGED au
    /\ UNCHANGED <<pureVars, instance, ctor, maybe_callback, callback_ptr, nextId, released, rpc,
                   in_ref_con, tramp, last, dropSnap>>

\* Drop::drop, line 313: self.free_render_callback().
drop_free ==
    /\ pc = "drop_free" /\ Alive
    /\ released' = free_render_callback(maybe_callback, released)
    /\ maybe_callback' = Null
    /\ dropLog' = IF maybe_callback # Null THEN Append(dropLog, "free") ELSE dropLog
    /\ pc' = "dropped"
    /\ UNCHANGED <<pureVars, instance, ctor, au, callback_ptr, nextId, rpc, in_ref_con, tramp,
                   calls, last, dropSnap>>

----------------------------------------------------------------------------
\* input_proc, lines 353-360, once the callback behind in_ref_con has
\* returned r: Ok gives status 0; Err(description) is written to stderr and
\* gives NoConnection, and the unwrap() of the write panics when the write
\* fails (wrote = FALSE).
input_proc(r, wrote) ==
    IF r = "Ok" THEN
        [cb |-> r, returned |-> TRUE, status |-> 0,
         emitted |-> FALSE, panicked |-> FALSE, ub |-> FALSE]
    ELSE IF wrote THEN
        [cb |-> r, returned |-> TRUE, status |-> NoConnection,
         emitted |-> TRUE, panicked |-> FALSE, ub |-> FALSE]
    ELSE
        [cb |-> r, returned |-> FALSE, status |-> 0,
         emitted |-> FALSE, panicked |-> TRUE, ub |-> FALSE]

\* The engine starts a rendering cycle: it calls the registered inputProc
\* with the registered inputProcRefCon.  It does so only while the unit is
\* initialized and running, and one activation at a time.
render_begin ==
    /\ Alive
    /\ rpc = "idle"
    /\ au.initialized /\ au.running /\ au.inputProc
    /\ rpc' = "in_proc"
    /\ in_ref_con' = au.inputProcRefCon
    /\ UNCHANGED <<pureVars, instance, pc, ctor, au, maybe_callback, callback_ptr, nextId, released,
                   tramp, calls, last, dropLog, dropSnap>>

\* input_proc runs to its end.  Line 353 calls through in_ref_con: with a
\* null pointer or a released allocation behind it that is undefined
\* behaviour, which either crashes the process or runs on as if some callback
\* had answered.
render_end ==
    /\ Alive
    /\ rpc = "in_proc"
    /\ \E r \in {"Ok", "Err"}, wrote \in BOOLEAN, crash \in BOOLEAN :
         LET ub == IF in_ref_con = Null THEN TRUE ELSE released[in_ref_con] > 0 IN
         /\ crash => ub
         /\ tramp' = IF crash
                     THEN [cb |-> "none", returned |-> FALSE, status |-> 0,
                           emitted |-> FALSE, panicked |-> FALSE, ub |-> TRUE]
                     ELSE [input_proc(r, wrote) EXCEPT !.ub = ub]
         /\ rpc' = IF crash \/ tramp'.panicked THEN "dead" ELSE "idle"
    /\ in_ref_con' = Null
    /\ UNCHANGED <<pureVars, instance, pc, ctor, au, maybe_callback, callback_ptr, nextId, released,
                   calls, last, dropLog, dropSnap>>

----------------------------------------------------------------------------
Next ==
    \/ Construct
    \/ start
    \/ stop
    \/ set_render_callback_begin
    \/ set_render_callback_set_property
    \/ set_render_callback_finish
    \/ drop_stop
    \/ drop_uninitialize
    \/ drop_free
    \/ render_begin
    \/ render_end

Spec == Init /\ [][Next]_vars

----------------------------------------------------------------------------
\* One set through the unit: set_property builds the engine call, the engine
\* answers st, try_os_status! turns the status into the result.  op names
\* the method called; apiVal is the value its caller passed.  At most
\* MaxPropCalls property calls are followed.  expect[k] is
\* the value of the last set on key k when that set succeeded with Some,
\* and 0 otherwise; rateSet and fmtSet are the same for the values passed to
\* set_sample_rate and set_stream_format.
SetCall(op, id, scope, elem, maybe_data, st, apiVal) ==
    LET call == set_property(id, scope, elem, maybe_data)
        ok == from_os_status(st).kind = "Ok"
        k == KeyOf(call)
    IN
    /\ pc = "idle" /\ Alive
    /\ pcall.n < MaxPropCalls
    /\ props' = engine_set(props, call, maybe_data, st)
    /\ pcall' = [pcall EXCEPT
                   !.n = @ + 1, !.op = op, !.id = id, !.scope = scope,
                   !.elem = elem, !.data = maybe_data, !.engine = <<call>>,
                   !.st = st, !.res = from_os_status(st).kind, !.out = 0,
                   !.expect = [@ EXCEPT ![k] =
                                 IF ok /\ maybe_data.some THEN maybe_data.val ELSE 0],
                   !.rateKey = IF op = "set_sample_rate" THEN k ELSE @,
                   !.fmtKey = IF op = "set_stream_format" THEN k ELSE @,
                   !.rateSet = IF op = "set_sample_rate" /\ ok THEN apiVal
                               ELSE IF k = pcall.rateKey \/ op = "set_sample_rate"
                                    THEN 0 ELSE @,
                   !.fmtSet = IF op = "set_stream_format" /\ ok THEN apiVal
                              ELSE IF k = pcall.fmtKey \/ op = "set_stream_format"
                                   THEN 0 ELSE @]
    /\ UNCHANGED <<unitVars, slice>>

\* One get through the unit: get_property builds the engine call; on status
\* 0 the value the engine wrote is returned, converted by conv.
GetCall(op, id, scope, elem, ty, st, convert) ==
    LET call == get_property(id, scope, elem, ty)
        ok == from_os_status(st).kind = "Ok"
        raw == engine_get(props, call)
        res == IF ~ok THEN [kind |-> from_os_status(st).kind, val |-> 0]
               ELSE IF convert THEN from_asbd(raw)
               ELSE [kind |-> "Ok", val |-> raw]
    IN
    /\ pc = "idle" /\ Alive
    /\ pcall.n < MaxPropCalls
    /\ pcall' = [pcall EXCEPT
                   !.n = @ + 1, !.op = op, !.id = id, !.scope = scope,
                   !.elem = elem, !.data = [NoData EXCEPT !.ty = ty],
                   !.engine = <<call>>, !.st = st,
                   !.res = res.kind, !.out = res.val]
    /\ UNCHANGED <<unitVars, props, slice>>

\* AudioUnit::set_property with any id, scope, element and value.
property_set ==
    \E id \in PropertyIds, scope \in Scopes, elem \in Elements,
       some \in BOOLEAN, addr \in Addrs, ty \in Types, val \in Values,
       st \in Statuses :
        /\ ~some => (addr = 64 /\ ty = "f64" /\ val = 1)
        /\ SetCall("set_property", id, scope, elem,
                   IF some THEN SomeData(addr, ty, val) ELSE NoData, st, 0)

\* AudioUnit::get_property with any id, scope, element and type.
property_get ==
    \E id \in PropertyIds, scope \in Scopes, elem \in Elements,
       ty \in Types, st \in Statuses :
        GetCall("get_property", id, scope, elem, ty, st, FALSE)

\* AudioUnit::set_sample_rate
set_sample_rate ==
    \E sample_rate \in Values, addr \in Addrs, st \in Statuses :
        SetCall("set_sample_rate", kAudioUnitProperty_SampleRate,
                "Input", "Output", SomeData(addr, "f64", sample_rate), st,
                sample_rate)

\* AudioUnit::sample_rate
sample_rate ==
    \E st \in Statuses :
        GetCall("sample_rate", kAudioUnitProperty_SampleRate,
                "Input", "Output", "f64", st, FALSE)

\* AudioUnit::set_stream_format
set_stream_format ==
    \E stream_format \in Values, addr \in Addrs, st \in Statuses :
        SetCall("set_stream_format", kAudioUnitProperty_StreamFormat,
                "Input", "Output",
                SomeData(addr, "AudioStreamBasicDescription",
                         to_asbd(stream_format)),
                st, stream_format)

\* AudioUnit::stream_format
stream_format ==
    \E st \in Statuses :
        GetCall("stream_format", kAudioUnitProperty_StreamFormat,
                "Output", "Output", "AudioStreamBasicDescription", st, TRUE)

NextProps ==
    \/ Construct
    \/ property_set
    \/ property_get
    \/ set_sample_rate
    \/ sample_rate
    \/ set_stream_format
    \/ stream_format

\* The property calls of one unit.
SpecProps == Init /\ [][NextProps]_vars

----------------------------------------------------------------------------
\* One activation of input_proc whose in_ref_con is a live callback, seen
\* as a function of what the engine supplies: a frame count and a buffer
\* list.
input_proc_slicing ==
    \E in_number_frames \in 0..MaxFrames, io_data \in AudioBufferLists :
        /\ slice' = [ran |-> TRUE,
                     in_number_frames |-> in_number_frames,
                     io_data |-> io_data,
                     invoked |-> input_proc_invocations(in_number_frames,
                                                        io_data)]
        /\ UNCHANGED <<unitVars, props, pcall>>

NextSlice == input_proc_slicing

\* The trampoline's slicing over the engine's inputs.
SpecSlice == Init /\ [][NextSlice]_vars

----------------------------------------------------------------------------
\* Helpers of the properties.
Range(s) == {s[i] : i \in 1..Len(s)}

Allocated == 1..(nextId - 1)

UnitExists == pc \notin {"new", "failed"}

----------------------------------------------------------------------------
\* C1: with callback A attached, a successful set_render_callback(Some(B))
\* leaves A released exactly once and B the one callback the engine reaches
\* and the unit holds; no callback is ever released twice; and once the unit
\* has been destroyed every callback that was handed to set_render_callback
\* has been released (none is leaked).
C1_CallbackExclusivity ==
    /\ \A c \in CallbackIds : released[c] <= 1
    /\ (pc = "idle" /\ last.res = "Ok" /\ last.old # Null /\ last.new # Null)
         => /\ released[last.old] = 1
            /\ released[last.new] = 0
            /\ maybe_callback = last.new
            /\ au.inputProcRefCon = last.new
    /\ pc = "dropped" => \A c \in Allocated : released[c] = 1

\* C2: whenever input_proc is running, its context pointer is non-null and
\* the callback behind it has not been released.
C2_ContextNeverNullOrStale ==
    rpc = "in_proc" =>
        /\ in_ref_con # Null
        /\ released[in_ref_con] = 0

\* C3: when the engine rejects the registration, the new callback is not
\* registered with the engine and has been released exactly once by the time
\* set_render_callback returns the error.
C3_RejectedCallbackDropped ==
    (pc = "idle" /\ last.res = "Err" /\ last.new # Null)
        => /\ au.inputProcRefCon # last.new
           /\ released[last.new] = 1

\* C4: when the engine rejects the registration, the unit's stored callback
\* is the one it held on entry, that callback has not been released, and the
\* engine's registration is what it was on entry (so a previously attached
\* callback is still the one the engine reaches).
C4_RejectedKeepsPrevious ==
    (pc = "idle" /\ last.res = "Err")
        => /\ maybe_callback = last.old
           /\ au.inputProcRefCon = last.regBefore
           /\ au.inputProc = last.procBefore
           /\ last.old # Null =>
                /\ released[last.old] = 0
                /\ released[last.old] = last.oldRel
                /\ au.inputProc /\ au.inputProcRefCon = last.old

\* C4's case: a registration of a new callback was rejected while another
\* callback was attached.
C4_Witness ==
    /\ pc = "idle" /\ last.res = "Err"
    /\ last.old # Null /\ last.new # Null

\* C5: whatever start and stop calls came before, drop's first engine call
\* is AudioOutputUnitStop, AudioUnitUninitialize is only ever called right
\* after it, and a drop that goes on to release the callback has called
\* both, in that order.  (A failing status makes drop panic at that call.)
C5_DropStopsThenUninitializes ==
    /\ Len(dropLog) >= 1 => dropLog[1] = "AudioOutputUnitStop"
    /\ \A i \in 1..Len(dropLog) :
         dropLog[i] = "AudioUnitUninitialize" => i = 2
    /\ pc \in {"drop_free", "dropped"} =>
         /\ Len(dropLog) >= 2
         /\ dropLog[1] = "AudioOutputUnitStop"
         /\ dropLog[2] = "AudioUnitUninitialize"
    /\ pc = "drop_uninitialize" => dropLog = <<"AudioOutputUnitStop">>

\* C5's case: a unit that was started and stopped more than once has been
\* destroyed.
C5_Witness ==
    /\ pc = "dropped"
    /\ calls.start >= 1 /\ calls.stop >= 2

\* C6: drop releases the callback attached to the unit exactly once and
\* nothing else, only after AudioOutputUnitStop and AudioUnitUninitialize
\* have both been called; with no callback attached it releases nothing.
C6_DropReleasesAttachedOnce ==
    /\ "free" \in Range(dropLog) =>
         dropLog = <<"AudioOutputUnitStop", "AudioUnitUninitialize", "free">>
    /\ (Len(dropLog) >= 1 /\ pc # "dropped") => released = dropSnap.rel
    /\ pc = "dropped" =>
         /\ maybe_callback = Null
         /\ \A c \in CallbackIds :
              released[c] = dropSnap.rel[c] + (IF c = dropSnap.cb THEN 1 ELSE 0)
         /\ dropSnap.cb # Null => released[dropSnap.cb] = 1
         /\ dropSnap.cb = Null => "free" \notin Range(dropLog)

\* C6's case: a unit with a callback attached has been destroyed.
C6_Witness ==
    /\ pc = "dropped"
    /\ dropSnap.cb # Null
    /\ "free" \in Range(dropLog)

\* C7: an engine call is made through a unit only on an instance for which
\* AudioComponentInstanceNew and AudioUnitInitialize both returned success;
\* a unit exists only then.
C7_InitializedBeforeUse ==
    /\ UnitExists => au.instOk /\ au.initOk
    /\ calls.used # {} => au.instOk /\ au.initOk
    /\ calls.start > 0 => au.initOk

\* C7's case: start has been called through a unit.
C7_Witness ==
    /\ "AudioOutputUnitStart" \in calls.used
    /\ calls.start > 0

\* C8: new_with_flags resolves the subtype, finds the component, instantiates
\* and initializes in that order and stops at the first failure, with the
\* error of that step; a unit is returned exactly when all four succeed.
C8_ConstructionStopsAtFirstFailure ==
    pc # "new" =>
        /\ ~ctor.subOk =>
             /\ ctor.result.kind = "NoKnownSubtype"
             /\ ctor.calls = <<>>
        /\ (ctor.subOk /\ ~ctor.found) =>
             /\ ctor.result.kind = "NoMatchingDefaultAudioUnitFound"
             /\ ctor.calls = <<"AudioComponentFindNext">>
        /\ (ctor.subOk /\ ctor.found /\ ctor.instSt # 0) =>
             /\ ctor.result = [kind |-> "OSStatus", code |-> ctor.instSt]
             /\ ctor.calls = <<"AudioComponentFindNext", "AudioComponentInstanceNew">>
        /\ (ctor.subOk /\ ctor.found /\ ctor.instSt = 0 /\ ctor.initSt # 0) =>
             /\ ctor.result = [kind |-> "OSStatus", code |-> ctor.initSt]
             /\ ctor.calls = <<"AudioComponentFindNext", "AudioComponentInstanceNew",
                               "AudioUnitInitialize">>
        /\ (ctor.subOk /\ ctor.found /\ ctor.instSt = 0 /\ ctor.initSt = 0) =>
             /\ ctor.result.kind = "Ok"
             /\ ctor.calls = <<"AudioComponentFindNext", "AudioComponentInstanceNew",
                               "AudioUnitInitialize">>
        /\ UnitExists <=> ctor.result.kind = "Ok"
        /\ UnitExists <=>
             (ctor.subOk /\ ctor.found /\ ctor.instSt = 0 /\ ctor.initSt = 0)
        /\ UnitExists => au.instOk /\ au.initOk

\* C8's case: construction failed at the last step, initialize.
C8_Witness ==
    /\ pc = "failed"
    /\ ctor.result.kind = "OSStatus"
    /\ Len(ctor.calls) = 3

\* C9: with the engine running set-property only between input_proc
\* activations, one activation at a time and none once the unit is stopped
\* and uninitialized, no callback is released while an input_proc activation
\* that uses it is in flight.
C9_NoReleaseWhileInFlight ==
    (rpc = "in_proc" /\ in_ref_con # Null) => released[in_ref_con] = 0

\* C9's case: an activation is in flight on the new callback while the
\* control thread has just released the one it replaced.
C9_Witness ==
    /\ rpc = "in_proc" /\ in_ref_con # Null
    /\ pc = "idle" /\ last.res = "Ok"
    /\ last.old # Null /\ released[last.old] = 1
    /\ in_ref_con = last.new

\* C10: when the callback input_proc called reports failure, input_proc
\* returns NoConnection, has written the description to stderr and has not
\* panicked; when it reports success input_proc returns 0; no other status
\* is returned.
C10_ErrorTranslation ==
    ~tramp.ub =>
        /\ tramp.cb = "Err" =>
             /\ tramp.returned /\ tramp.status = NoConnection
             /\ tramp.emitted /\ ~tramp.panicked
        /\ tramp.cb = "Ok" => tramp.returned /\ tramp.status = 0
        /\ tramp.returned => tramp.status \in {0, NoConnection}

\* C14: inside set_render_callback the previously attached callback has not
\* been released before the engine has accepted the new registration: it is
\* released only by the step that follows a successful AudioUnitSetProperty,
\* and never when the registration is pending or was rejected.
C14_ReleaseAfterRegistration ==
    (pc \in {"src_set_property", "src_free", "idle"}
       /\ last.res # "none" /\ last.old # Null /\ released[last.old] > 0)
        => /\ pc = "idle" /\ last.res = "Ok"
           /\ au.inputProc /\ au.inputProcRefCon = last.new

\* C14's case: a replacement went through and the previous callback has been
\* released after it.
C14_Witness ==
    /\ pc = "idle" /\ last.res = "Ok"
    /\ last.old # Null /\ last.new # Null
    /\ released[last.old] = 1

\* C17: between set_render_callback calls on a live unit, after at least one
\* has completed, the context pointer registered with the engine is the
\* unit's stored token (null exactly when the unit stores none), and a stored
\* token refers to a callback that has not been released.
C17_RegistrationConsistent ==
    (pc = "idle" /\ last.res \in {"Ok", "Err"})
        => /\ au.inputProcRefCon = maybe_callback
           /\ (au.inputProcRefCon = Null) <=> (maybe_callback = Null)
           /\ maybe_callback # Null => released[maybe_callback] = 0

\* C17's case: a registration was rejected after an earlier one had
\* succeeded, and the unit still stores the earlier callback.
C17_Witness ==
    /\ pc = "idle" /\ last.res = "Err"
    /\ maybe_callback # Null /\ last.new # Null
    /\ au.inputProcRefCon = maybe_callback

\* C16: every start call makes exactly one AudioOutputUnitStart call and
\* every stop call exactly one AudioOutputUnitStop call, whatever calls came
\* before; the call returns an error exactly when that engine call returned
\* a non-zero status; and it leaves the unit's engine handle and its stored
\* callback token as they were.
C16_StartStopForwardOnce ==
    [][ /\ calls'.start = calls.start + 1 =>
             /\ calls'.engStart = calls.engStart + 1
             /\ calls'.engStop = calls.engStop
             /\ calls'.lastOp = "start"
             /\ (calls'.lastRes = "Ok") <=> (calls'.lastSt = 0)
             /\ calls'.lastRes \in {"Ok", "OSStatus"}
             /\ instance' = instance
             /\ maybe_callback' = maybe_callback
        /\ calls'.stop = calls.stop + 1 =>
             /\ calls'.engStop = calls.engStop + 1
             /\ calls'.engStart = calls.engStart
             /\ calls'.lastOp = "stop"
             /\ (calls'.lastRes = "Ok") <=> (calls'.lastSt = 0)
             /\ calls'.lastRes \in {"Ok", "OSStatus"}
             /\ instance' = instance
             /\ maybe_callback' = maybe_callback
      ]_vars

\* C16's case: start was called again on a unit that already runs, with a
\* callback attached, and the engine was called each time.
C16_Witness ==
    /\ calls.start >= 2 /\ calls.engStart = calls.start
    /\ calls.lastOp = "start"
    /\ au.running /\ maybe_callback # Null /\ instance # Null

----------------------------------------------------------------------------
\* Helpers of the property claims.
SetOps == {"set_property", "set_sample_rate", "set_stream_format"}

\* The key the caller of the last property call named.
CallerKey ==
    <<pcall.id, IF pcall.scope = "Output" THEN 0 ELSE 1,
                IF pcall.elem = "Output" THEN 0 ELSE 1>>

\* C12: a set through the unit makes exactly one AudioUnitSetProperty call,
\* with the caller's id, scope and element; with a value present the call
\* carries the value's address and size_of(T), with none a null address and
\* size 0; the result is Ok exactly when the engine's status is 0 and a
\* status-derived error otherwise.
C12_SetPropertyMarshalling ==
    pcall.op \in SetOps =>
        /\ Len(pcall.engine) = 1
        /\ pcall.engine[1].fn = "AudioUnitSetProperty"
        /\ KeyOf(pcall.engine[1]) = CallerKey
        /\ pcall.data.some =>
             /\ pcall.engine[1].data_ptr = pcall.data.addr
             /\ pcall.engine[1].data_ptr # Null
             /\ pcall.engine[1].size =
                  (IF pcall.data.ty = "f64" THEN 8 ELSE 40)
        /\ ~pcall.data.some =>
             /\ pcall.engine[1].data_ptr = Null
             /\ pcall.engine[1].size = 0
        /\ (pcall.res = "Ok") <=> (pcall.st = 0)
        /\ pcall.st # 0 => pcall.res = "OSStatus"

\* C12's case: set_property was called with a value of the larger type on
\* the input scope and element, and the engine rejected it.
C12_Witness ==
    /\ pcall.op = "set_property"
    /\ pcall.data.some /\ pcall.data.ty = "AudioStreamBasicDescription"
    /\ pcall.scope = "Input" /\ pcall.elem = "Input"
    /\ pcall.st # 0

\* C13: a successful get_property on a key returns the value of the last
\* set on that key, when that set was a successful set_property with Some(v)
\* (the engine stores values per key, untransformed).
C13_PropertyRoundTrip ==
    (pcall.op = "get_property" /\ pcall.res = "Ok"
       /\ pcall.expect[CallerKey] # 0)
        => pcall.out = pcall.expect[CallerKey]

\* C13's case: a value was set and read back on a key whose scope and
\* element differ.
C13_Witness ==
    /\ pcall.op = "get_property" /\ pcall.res = "Ok"
    /\ pcall.scope # pcall.elem
    /\ pcall.expect[CallerKey] # 0
    /\ pcall.out = pcall.expect[CallerKey]

\* C15: sample_rate reads the key set_sample_rate writes and stream_format
\* reads the key set_stream_format writes, so that a successful getter that
\* follows a successful setter (no other set on that key in between)
\* returns the value the setter was given.
C15_ConvenienceGetterReadsSetterKey ==
    /\ (pcall.op = "sample_rate" /\ pcall.rateKey # NoKey)
         => KeyOf(pcall.engine[1]) = pcall.rateKey
    /\ (pcall.op = "sample_rate" /\ pcall.st = 0 /\ pcall.rateSet # 0)
         => pcall.res = "Ok" /\ pcall.out = pcall.rateSet
    /\ (pcall.op = "stream_format" /\ pcall.fmtKey # NoKey)
         => KeyOf(pcall.engine[1]) = pcall.fmtKey
    /\ (pcall.op = "stream_format" /\ pcall.st = 0 /\ pcall.fmtSet # 0)
         => pcall.res = "Ok" /\ pcall.out = pcall.fmtSet

\* C11: for every frame count n and every channel count c the engine
\* supplies in one invocation, input_proc calls the user callback exactly
\* once, with exactly c channel views, each of length exactly n and starting
\* at the address of the buffer at the same position in the buffer list,
\* and with n as the frame-count argument.
C11_TrampolineSlicing ==
    slice.ran =>
        /\ Len(slice.invoked) = 1
        /\ slice.invoked[1].frames = slice.in_number_frames
        /\ Len(slice.invoked[1].channels) = slice.io_data.mNumberBuffers
        /\ \A i \in 1..slice.io_data.mNumberBuffers :
             /\ slice.invoked[1].channels[i].len = slice.in_number_frames
             /\ slice.invoked[1].channels[i].ptr
                  = slice.io_data.mBuffers[i].mData

\* C11's case: two frames and two channel buffers at different addresses,
\* the second of which is shorter in bytes than two samples.
C11_Witness ==
    /\ slice.ran
    /\ slice.in_number_frames = 2
    /\ slice.io_data.mNumberBuffers = 2
    /\ slice.io_data.mBuffers[1].mData # slice.io_data.mBuffers[2].mData
    /\ slice.io_data.mBuffers[2].mDataByteSize < 8
    /\ Len(slice.invoked) = 1
    /\ Len(slice.invoked[1].channels) = 2

====
